---- MODULE Spec2Model ----
(***************************************************************************)
(* QuicSideChannel: a passive QUIC monitor.  src/main.rs captures link     *)
(* frames, parse_udp_packet extracts the UDP datagram, and main feeds the  *)
(* payload to a quinn-proto Endpoint and dispatches on the DatagramEvent.  *)
(*                                                                         *)
(* Two specifications live here:                                           *)
(*   ParserSpec  the pure function parse_udp_packet applied to frames      *)
(*               drawn from bounded sets;                                  *)
(*   Spec        the control flow of main (setup, capture loop, dispatch). *)
(***************************************************************************)
EXTENDS Integers, Sequences, FiniteSets, TLC

VARIABLES
    \* ---- ParserSpec: one call of parse_udp_packet ----
    sample,        \* how the frame under test was produced (ghost)
    frame,         \* the argument `data`
    stage,         \* "input" before the call, "parsed" after it, "off" in Spec
    result,        \* the call's outcome
    \* ---- Spec: main ----
    pc,            \* position of main
    exit_status,   \* "running", "success" (Ok(())) or "failure" (Err)
    exit_cause,    \* which statement ended main
    loop_started,  \* the while loop of line 86 has been entered
    filter_applied,\* capture.filter (line 77) succeeded
    packet,        \* the frame returned by capture.next_packet
    parsed,        \* parse_udp_packet(&packet)
    event,         \* the Option<DatagramEvent> returned by handle
    endpoint,      \* proto_endpoint: the engine's connection table
    minted,        \* number of create_dummy_server_config calls that succeeded
    frames_read,   \* number of frames the capture source has delivered
    stdout,        \* the lines printed by println!
    transmitted,   \* the datagrams handed to the transmit sink
    delivered,     \* the events forwarded to a connection
    kept,          \* the handles of connections the loop itself holds
    captured,      \* ghost: the frames read so far, in capture order
    log,           \* ghost: one record per datagram handed to the engine
    admitted       \* ghost: the attempts for which accept returned Ok

parserVars == <<sample, frame, stage, result>>
mainVars == <<pc, exit_status, exit_cause, loop_started, filter_applied,
              packet, parsed, event, endpoint, minted, frames_read, stdout,
              transmitted, delivered, kept, captured, log, admitted>>
sinkVars == <<transmitted, delivered, kept>>
vars == <<sample, frame, stage, result,
          pc, exit_status, exit_cause, loop_started, filter_applied,
          packet, parsed, event, endpoint, minted, frames_read, stdout,
          transmitted, delivered, kept, captured, log, admitted>>

(***************************************************************************)
(* Bounds                                                                  *)
(***************************************************************************)
\* longest raw frame tried: link header + 60-byte IPv4 header + UDP header + 6
MaxFrameLen == 88
\* number of frames the capture source delivers before it fails
MaxFrames == 3

(***************************************************************************)
(* Bytes, slices and Rust's checked indexing                               *)
(***************************************************************************)
\* data[i], 0-based
At(s, i) == s[i + 1]
\* data[i] is in range
IndexOk(s, i) == i >= 0 /\ i < Len(s)
\* &data[a..]
SliceFrom(s, a) == SubSeq(s, a + 1, Len(s))
\* &data[a..] is in range
SliceFromOk(s, a) == a <= Len(s)
\* &data[a..b]
Slice(s, a, b) == SubSeq(s, a + 1, b)
\* &data[a..b] is in range
SliceOk(s, a, b) == a <= b /\ b <= Len(s)

\* mutant: little-endian decoding
u16_from_le_bytes(hi, lo) == lo * 256 + hi
\* u16::from_be_bytes([hi, lo])
u16_from_be_bytes(hi, lo) == hi * 256 + lo

\* Ipv4Addr::new(a, b, c, d)
Ipv4Addr(a, b, c, d) == <<a, b, c, d>>
\* SocketAddr::new(IpAddr::V4(ip), port)
SocketAddr(ip, port) == [ip |-> ip, port |-> port]

(***************************************************************************)
(* parse_udp_packet (src/main.rs 15-49)                                    *)
(***************************************************************************)
None == [kind |-> "None"]
Some(src_addr, dst_addr, payload) ==
    [kind |-> "Some", src_addr |-> src_addr, dst_addr |-> dst_addr,
     payload |-> payload]
\* an out-of-range index or slice, or an arithmetic overflow, unwinds
Panic == [kind |-> "Panic"]

\* line 16: the frame is shorter than an Ethernet header
EthTooShort(data) == Len(data) < 14

\* mutant: the network header check compares with 10 instead of 20
Ipv4TooShort_10(ip_packet) == Len(ip_packet) < 10
\* line 19: the rest is shorter than a minimal IPv4 header
Ipv4TooShort(ip_packet) == Len(ip_packet) < 20

\* mutant: the protocol check is missing
NotUdp_never(ip_packet) == FALSE
\* line 22: the protocol byte is not 17
NotUdp(ip_packet) == At(ip_packet, 9) # 17

\* mutant: a fixed 20-byte header, options ignored
IpHeaderLen_fixed(ip_packet) == 20
\* line 29: (ip_packet[0] & 0x0F) * 4, computed in u8
IpHeaderLen(ip_packet) == (At(ip_packet, 0) % 16) * 4

\* line 30: the rest cannot hold the IPv4 header and a UDP header
UdpHeaderTooShort(ip_packet, ip_header_len) ==
    Len(ip_packet) < ip_header_len + 8

\* line 40: the declared UDP length is below 8 or beyond the buffer
UdpLenBad(udp_packet, udp_len) ==
    udp_len < 8 \/ Len(udp_packet) < udp_len

\* mutant: the payload runs to the end of the buffer
UdpPayload_rest(udp_packet, udp_len) == SliceFrom(udp_packet, 8)
\* line 46: &udp_packet[8..udp_len]
UdpPayload(udp_packet, udp_len) == Slice(udp_packet, 8, udp_len)

\* lines 32-48, after the header length is known
parse_udp(ip_packet, ip_header_len) ==
    IF ~SliceFromOk(ip_packet, ip_header_len) THEN Panic
    ELSE
    LET udp_packet == SliceFrom(ip_packet, ip_header_len) IN
    IF ~IndexOk(udp_packet, 5) THEN Panic
    ELSE
    LET src_port == u16_from_be_bytes(At(udp_packet, 0), At(udp_packet, 1))
        dst_port == u16_from_be_bytes(At(udp_packet, 2), At(udp_packet, 3))
        udp_len  == u16_from_be_bytes(At(udp_packet, 4), At(udp_packet, 5))
    IN
    IF UdpLenBad(udp_packet, udp_len) THEN None
    ELSE IF ~SliceOk(udp_packet, 8, udp_len) THEN Panic
    ELSE
    LET src_ip == Ipv4Addr(At(ip_packet, 12), At(ip_packet, 13),
                           At(ip_packet, 14), At(ip_packet, 15))
        dst_ip == Ipv4Addr(At(ip_packet, 16), At(ip_packet, 17),
                           At(ip_packet, 18), At(ip_packet, 19))
    IN Some(SocketAddr(src_ip, src_port), SocketAddr(dst_ip, dst_port),
            UdpPayload(udp_packet, udp_len))

\* lines 18-30
parse_ip(ip_packet) ==
    IF Ipv4TooShort(ip_packet) THEN None
    ELSE IF ~IndexOk(ip_packet, 9) THEN Panic
    ELSE IF NotUdp(ip_packet) THEN None
    ELSE IF ~IndexOk(ip_packet, 19) THEN Panic
    ELSE
    LET ip_header_len == IpHeaderLen(ip_packet) IN
    IF ip_header_len > 255 THEN Panic
    ELSE IF UdpHeaderTooShort(ip_packet, ip_header_len) THEN None
    ELSE parse_udp(ip_packet, ip_header_len)

parse_udp_packet(data) ==
    IF EthTooShort(data) THEN None
    ELSE IF ~SliceFromOk(data, 14) THEN Panic
    ELSE parse_ip(SliceFrom(data, 14))

(***************************************************************************)
(* Frames under test                                                       *)
(***************************************************************************)
\* a deterministic byte pattern: all zero for seed 0, varied otherwise
Fill(seed, i) == (seed * (i * 37 + 11)) % 256

\* first byte of the network header: version nibble 4 and every header-length
\* nibble, plus one frame whose version nibble is not 4
VhlBytes == {64 + n : n \in 0..15} \cup {6 * 16 + 5}
ProtoBytes == {17, 6}
LenHiBytes == {0, 1, 255}
LenLoBytes == {0, 7, 8, 9, 20, 255}
Seeds == {0, 1}

\* a frame of n bytes whose first network-header byte, protocol byte and
\* transport length field (at the offset the header-length nibble gives) are
\* chosen and whose other bytes follow Fill
RawFrame(n, vhl, proto, len_hi, len_lo, seed) ==
    LET H == 4 * (vhl % 16) IN
    [i \in 1..n |->
        IF i - 1 = 14 THEN vhl
        ELSE IF i - 1 = 14 + 9 THEN proto
        ELSE IF i - 1 = 14 + H + 4 THEN len_hi
        ELSE IF i - 1 = 14 + H + 5 THEN len_lo
        ELSE Fill(seed, i)]

RawSamples ==
    [kind : {"raw"}, n : 0..MaxFrameLen, vhl : VhlBytes, proto : ProtoBytes,
     len_hi : LenHiBytes, len_lo : LenLoBytes, seed : Seeds]

\* payloads of 0, 1, 10 and 250 bytes (250 makes the length field use both bytes)
PayloadOf(k) == [i \in 1..k |-> (i * 7 + 3) % 256]
Payloads == {PayloadOf(k) : k \in {0, 1, 10, 250}}
SrcIps == {<<10, 0, 0, 1>>, <<192, 168, 1, 17>>}
DstIps == {<<10, 0, 0, 2>>, <<172, 16, 254, 3>>}
SrcPorts == {5000, 443, 65535}
DstPorts == {443, 5000}

Hi(x) == x \div 256
Lo(x) == x % 256

\* a well-formed frame: 14-byte link header, IPv4 header of 4*ihl bytes with
\* protocol 17, UDP header with length 8 + Len(payload), payload, trailing bytes
BuildFrame(ver, ihl, src_ip, dst_ip, sport, dport, payload, trailing) ==
    LET eth == <<2, 0, 0, 0, 0, 1, 2, 0, 0, 0, 0, 2, 8, 0>>
        total == 4 * ihl + 8 + Len(payload)
        ip20 == <<ver * 16 + ihl, 0, Hi(total), Lo(total), 0, 1, 64, 0,
                  64, 17, 0, 0>> \o src_ip \o dst_ip
        options == [i \in 1..(4 * ihl - 20) |-> 1]
        udp_len == 8 + Len(payload)
        udp == <<Hi(sport), Lo(sport), Hi(dport), Lo(dport),
                 Hi(udp_len), Lo(udp_len), 0, 0>>
        tail == [i \in 1..trailing |-> 238]
    IN eth \o ip20 \o options \o udp \o payload \o tail

BuiltSamples ==
    [kind : {"built"}, ver : {4, 15}, ihl : 5..15, src_ip : SrcIps,
     dst_ip : DstIps, sport : SrcPorts, dport : DstPorts,
     payload : Payloads, trailing : {0, 3}]

FrameOf(s) ==
    IF s.kind = "raw"
    THEN RawFrame(s.n, s.vhl, s.proto, s.len_hi, s.len_lo, s.seed)
    ELSE BuildFrame(s.ver, s.ihl, s.src_ip, s.dst_ip, s.sport, s.dport,
                    s.payload, s.trailing)

NotCalled == [kind |-> "NotCalled"]
\* proto_endpoint before line 82
NoEndpoint == [connections |-> {}, next_handle |-> 0]

(***************************************************************************)
(* ParserSpec: parse_udp_packet applied once to each frame                 *)
(***************************************************************************)
MainIdle ==
    /\ pc = "off"
    /\ exit_status = "running"
    /\ exit_cause = "none"
    /\ loop_started = FALSE
    /\ filter_applied = FALSE
    /\ packet = <<>>
    /\ parsed = NotCalled
    /\ event = NotCalled
    /\ endpoint = NoEndpoint
    /\ minted = 0
    /\ frames_read = 0
    /\ stdout = <<>>
    /\ transmitted = <<>>
    /\ delivered = <<>>
    /\ kept = {}
    /\ captured = <<>>
    /\ log = <<>>
    /\ admitted = <<>>

ParserInit ==
    /\ sample \in RawSamples \cup BuiltSamples
    /\ frame = FrameOf(sample)
    /\ stage = "input"
    /\ result = NotCalled
    /\ MainIdle

\* the call parse_udp_packet(&frame)
ParseCall ==
    /\ stage = "input"
    /\ result' = parse_udp_packet(frame)
    /\ stage' = "parsed"
    /\ UNCHANGED <<sample, frame>>
    /\ UNCHANGED mainVars

ParserNext == ParseCall

ParserSpec == ParserInit /\ [][ParserNext]_vars

(***************************************************************************)
(* Properties of parse_udp_packet, checked under ParserSpec.  They read    *)
(* the header fields from the bytes of `frame` directly.                   *)
(***************************************************************************)
Parsed == stage = "parsed"
\* the frame has a first network-header byte
HasNetworkByte0 == Len(frame) >= 15
\* H: 4 * (low 4 bits of the first network-header byte)
FrameH == 4 * (frame[15] % 16)
\* offset in the frame where the transport header starts
FrameT == 14 + FrameH
\* number of bytes from the start of the transport header to the end
FrameRemaining == Len(frame) - FrameT
\* the frame holds the 6 bytes of ports and length at the transport header
HasTransportFields == HasNetworkByte0 /\ Len(frame) >= FrameT + 6
FrameSrcPort == frame[FrameT + 1] * 256 + frame[FrameT + 2]
FrameDstPort == frame[FrameT + 3] * 256 + frame[FrameT + 4]
\* L: the big-endian 16-bit transport length field
FrameL == frame[FrameT + 5] * 256 + frame[FrameT + 6]

\* C3: every buffer shorter than 14+20+8 = 42 bytes is rejected, whatever its
\* contents.
C3_ShortFrameRejected ==
    (Parsed /\ Len(frame) < 14 + 20 + 8) => result = None

\* C4: parse_udp_packet is total: it returns Some or None for every frame and
\* never panics on an out-of-range index or slice.
C4_ParserTotal ==
    Parsed => result.kind \in {"Some", "None"}

\* a frame whose header-length nibble is 15 and whose declared transport
\* length is 0xFFFF got as far as the length check and was answered
C4_Witness ==
    /\ Parsed
    /\ sample.kind = "raw"
    /\ sample.vhl % 16 = 15
    /\ sample.proto = 17
    /\ Len(frame) >= 14 + 60 + 8
    /\ FrameL = 65535
    /\ result = None

\* C5: Some is returned only when 8 <= L <= bytes remaining from the start of
\* the transport header, the payload is then exactly the bytes at transport
\* offsets 8..L, and a frame with L < 8 or L beyond the buffer is rejected.
C5_DeclaredLengthBounds ==
    Parsed =>
        /\ result.kind = "Some" =>
              /\ HasTransportFields
              /\ 8 <= FrameL
              /\ FrameL <= FrameRemaining
              /\ result.payload = SubSeq(frame, FrameT + 9, FrameT + FrameL)
              /\ Len(result.payload) = FrameL - 8
        /\ (HasTransportFields /\ (FrameL < 8 \/ FrameL > FrameRemaining)) =>
              result = None

\* a frame accepted with a non-empty payload and bytes left after the declared
\* length
C5_Witness ==
    /\ Parsed
    /\ result.kind = "Some"
    /\ Len(result.payload) > 0
    /\ FrameL < FrameRemaining

\* C6: round trip: a well-formed frame built from addresses, ports and payload
\* parses to exactly that source address:port, destination address:port and
\* payload; trailing bytes are not part of the payload.
C6_RoundTrip ==
    (Parsed /\ sample.kind = "built") =>
        result = Some(SocketAddr(sample.src_ip, sample.sport),
                      SocketAddr(sample.dst_ip, sample.dport),
                      sample.payload)

\* the spec's scenario (ports 5000 and 443, 10-byte payload) with options and
\* trailing bytes
C6_Witness ==
    /\ Parsed
    /\ sample.kind = "built"
    /\ sample.ihl = 7
    /\ sample.sport = 5000
    /\ sample.dport = 443
    /\ Len(sample.payload) = 10
    /\ sample.trailing = 3
    /\ result.kind = "Some"
    /\ result.payload = sample.payload

\* C7: every frame whose protocol byte (offset 9 of the network header) is not
\* 17 is rejected.
C7_NonUdpRejected ==
    (Parsed /\ Len(frame) >= 14 + 10 /\ frame[14 + 10] # 17) => result = None

\* a rejected non-UDP frame that is accepted once its protocol byte is 17
C7_Witness ==
    /\ Parsed
    /\ sample.kind = "raw"
    /\ sample.proto = 6
    /\ result = None
    /\ parse_udp_packet(RawFrame(sample.n, sample.vhl, 17, sample.len_hi,
                                 sample.len_lo, sample.seed)).kind = "Some"

\* C8: the transport header is located at network-header offset H = 4 * (low
\* nibble of the first network-header byte): the ports are read from there,
\* and a frame with fewer than H + 8 bytes after the link header is rejected.
C8_TransportHeaderOffset ==
    Parsed =>
        /\ result.kind = "Some" =>
              /\ HasTransportFields
              /\ result.src_addr.port = FrameSrcPort
              /\ result.dst_addr.port = FrameDstPort
        /\ (HasNetworkByte0 /\ Len(frame) - 14 < FrameH + 8) => result = None

\* a header with options (H = 40) whose ports were read from offset 40
C8_Witness ==
    /\ Parsed
    /\ sample.kind = "built"
    /\ sample.ihl = 10
    /\ FrameH = 40
    /\ result.kind = "Some"
    /\ result.src_addr.port = sample.sport
    /\ result.dst_addr.port = sample.dport

(***************************************************************************)
(* The protocol engine (quinn_proto::Endpoint).  Its code is not part of   *)
(* the repository; it is modelled from the contract of the specification   *)
(* (4.3): handle demultiplexes by connection identifier, an unseen         *)
(* handshake-initiating datagram is a NewConnection attempt, accept        *)
(* registers the attempt as Active under a newly assigned handle.          *)
(* A datagram payload is <<first byte, connection identifier, ...>>; the   *)
(* first byte 192 marks a handshake-initiating datagram.                   *)
(***************************************************************************)
InitialByte == 192
DataByte == 64

\* the connection identifier a payload carries, -1 when it carries none
CidOf(payload) == IF Len(payload) >= 2 THEN payload[2] ELSE -1
IsInitial(payload) == Len(payload) >= 2 /\ payload[1] = InitialByte

NoEvent == [kind |-> "None"]
NewConnection(incoming) == [kind |-> "NewConnection", incoming |-> incoming]
ConnectionEvent(handle) == [kind |-> "ConnectionEvent", handle |-> handle]
Response(remote) == [kind |-> "Response", destination |-> remote]

\* the entries of the engine's table that carry connection identifier cid
Routes(ep, cid) == {c \in ep.connections : c.cid = cid}

\* Endpoint::handle(now, remote, None, None, data, buf): the outcomes the
\* engine may produce for a datagram
Endpoint_handle(ep, remote, payload) ==
    IF CidOf(payload) = -1 THEN {NoEvent}
    ELSE IF Routes(ep, CidOf(payload)) # {}
    THEN {ConnectionEvent(c.handle) : c \in Routes(ep, CidOf(payload))}
    ELSE IF IsInitial(payload)
    THEN {NewConnection([cid |-> CidOf(payload), remote |-> remote])}
    ELSE {Response(remote), NoEvent}

\* mutant: every admitted connection gets handle 0
Endpoint_accept_handle0(ep, incoming) ==
    [connections |-> ep.connections \cup
        {[handle |-> 0, cid |-> incoming.cid,
          remote |-> incoming.remote, state |-> "Active"]},
     next_handle |-> ep.next_handle + 1]
\* Endpoint::accept(incoming, now, buf, Some(config)) returning Ok((ch, conn)):
\* the attempt enters the table as Active under the next handle
Endpoint_accept(ep, incoming) ==
    [connections |-> ep.connections \cup
        {[handle |-> ep.next_handle, cid |-> incoming.cid,
          remote |-> incoming.remote, state |-> "Active"]},
     next_handle |-> ep.next_handle + 1]

(***************************************************************************)
(* The capture source                                                      *)
(***************************************************************************)
AddrX == <<10, 0, 0, 1>>
AddrY == <<192, 168, 1, 17>>
Monitored == <<10, 0, 0, 2>>

\* a UDP frame from remote carrying payload
UdpFrame(remote, payload) ==
    BuildFrame(4, 5, remote, Monitored, 5000, 443, payload, 0)

\* frames the interface may deliver: handshake-initiating and data datagrams
\* of connections 1 and 2 from two remote addresses, an empty datagram, a TCP
\* segment and a runt frame
CaptureFrames ==
    {UdpFrame(r, <<b, c>>) : r \in {AddrX, AddrY},
                             b \in {InitialByte, DataByte}, c \in {1, 2}}
    \cup {UdpFrame(AddrX, <<>>)}
    \cup {RawFrame(42, 69, 6, 0, 8, 0)}
    \cup {RawFrame(13, 69, 17, 0, 8, 0)}

(***************************************************************************)
(* main (src/main.rs 69-126)                                               *)
(***************************************************************************)
ParserOff ==
    /\ sample = [kind |-> "none"]
    /\ frame = <<>>
    /\ stage = "off"
    /\ result = NotCalled

Init ==
    /\ ParserOff
    /\ pc = "load_config"
    /\ exit_status = "running"
    /\ exit_cause = "none"
    /\ loop_started = FALSE
    /\ filter_applied = FALSE
    /\ packet = <<>>
    /\ parsed = NotCalled
    /\ event = NotCalled
    /\ endpoint = NoEndpoint
    /\ minted = 0
    /\ frames_read = 0
    /\ stdout = <<>>
    /\ transmitted = <<>>
    /\ delivered = <<>>
    /\ kept = {}
    /\ captured = <<>>
    /\ log = <<>>
    /\ admitted = <<>>

\* main returns Err(..): the process exits with a non-zero status
ReturnErr(cause) ==
    /\ pc' = "exited"
    /\ exit_status' = "failure"
    /\ exit_cause' = cause

\* main returns Ok(()): the process exits with status 0
ReturnOk(cause) ==
    /\ pc' = "exited"
    /\ exit_status' = "success"
    /\ exit_cause' = cause

\* the end of the loop body (line 122): packet, the parsed tuple and the event
\* go out of scope and the loop returns to capture.next_packet()
EndOfIteration ==
    /\ packet' = <<>>
    /\ parsed' = NotCalled
    /\ event' = NotCalled
    /\ pc' = "next_packet"

\* line 71: MonitorConfig::from_file("monitorconfig")?
LoadConfig ==
    /\ pc = "load_config"
    /\ \/ /\ pc' = "open_capture"
          /\ UNCHANGED <<exit_status, exit_cause>>
       \/ ReturnErr("config")
    /\ UNCHANGED <<loop_started, filter_applied, packet, parsed, event,
                   endpoint, minted, frames_read, stdout, captured, log,
                   admitted>>
    /\ UNCHANGED sinkVars
    /\ UNCHANGED parserVars

\* lines 72-75: Capture::from_device(..).map_err(..)?.immediate_mode(true).open()?
OpenCapture ==
    /\ pc = "open_capture"
    /\ \/ /\ pc' = "set_filter"
          /\ UNCHANGED <<exit_status, exit_cause>>
       \/ ReturnErr("capture_setup")
    /\ UNCHANGED <<loop_started, filter_applied, packet, parsed, event,
                   endpoint, minted, frames_read, stdout, captured, log,
                   admitted>>
    /\ UNCHANGED sinkVars
    /\ UNCHANGED parserVars

\* line 77: let _ = capture.filter(..): the Result is discarded
SetFilter ==
    /\ pc = "set_filter"
    /\ filter_applied' \in BOOLEAN
    /\ pc' = "server_config"
    /\ UNCHANGED <<exit_status, exit_cause, loop_started, packet, parsed,
                   event, endpoint, minted, frames_read, stdout, captured,
                   log, admitted>>
    /\ UNCHANGED sinkVars
    /\ UNCHANGED parserVars

\* lines 80-82: create_dummy_server_config()? and Endpoint::new
ServerConfig ==
    /\ pc = "server_config"
    /\ \/ /\ minted' = minted + 1
          /\ endpoint' = NoEndpoint
          /\ pc' = "next_packet"
          /\ UNCHANGED <<exit_status, exit_cause>>
       \/ /\ ReturnErr("credential")
          /\ UNCHANGED <<minted, endpoint>>
    /\ UNCHANGED <<loop_started, filter_applied, packet, parsed, event,
                   frames_read, stdout, captured, log, admitted>>
    /\ UNCHANGED sinkVars
    /\ UNCHANGED parserVars

\* line 86: capture.next_packet() returns Ok(packet): the loop body runs
NextPacketOk ==
    /\ pc = "next_packet"
    /\ frames_read < MaxFrames
    /\ \E f \in CaptureFrames :
          /\ packet' = f
          /\ captured' = Append(captured, f)
    /\ frames_read' = frames_read + 1
    /\ loop_started' = TRUE
    /\ pc' = "parse"
    /\ UNCHANGED <<exit_status, exit_cause, filter_applied, parsed, event,
                   endpoint, minted, stdout, log, admitted>>
    /\ UNCHANGED sinkVars
    /\ UNCHANGED parserVars

\* lines 86 and 125: capture.next_packet() returns Err: `while let Ok(..)` ends
\* the loop and main returns Ok(())
NextPacketErr ==
    /\ pc = "next_packet"
    /\ loop_started' = TRUE
    /\ ReturnOk("capture_read")
    /\ UNCHANGED <<filter_applied, packet, parsed, event, endpoint, minted,
                   frames_read, stdout, captured, log, admitted>>
    /\ UNCHANGED sinkVars
    /\ UNCHANGED parserVars

\* line 88: if let Some((src_addr, _, data)) = parse_udp_packet(&packet);
\* on None the body is skipped; a panic of the parser unwinds main
ParsePacket ==
    /\ pc = "parse"
    /\ LET r == parse_udp_packet(packet) IN
          /\ parsed' = IF r.kind = "None" THEN NotCalled ELSE r
          /\ packet' = IF r.kind = "None" THEN <<>> ELSE packet
          /\ pc' = IF r.kind = "Some" THEN "handle"
                   ELSE IF r.kind = "None" THEN "next_packet"
                   ELSE "exited"
          /\ exit_status' = IF r.kind = "Panic" THEN "failure" ELSE exit_status
          /\ exit_cause' = IF r.kind = "Panic" THEN "panic" ELSE exit_cause
    /\ UNCHANGED <<loop_started, filter_applied, event, endpoint,
                   minted, frames_read, stdout, captured, log, admitted>>
    /\ UNCHANGED sinkVars
    /\ UNCHANGED parserVars

\* mutant: the outcome of handle is not dispatched
Handle_NoDispatch ==
    /\ pc = "handle"
    /\ \E e \in Endpoint_handle(endpoint, parsed.src_addr, parsed.payload) :
          log' = Append(log, [remote |-> parsed.src_addr,
                              cid |-> CidOf(parsed.payload),
                              initial |-> IsInitial(parsed.payload),
                              outcome |-> e.kind])
    /\ EndOfIteration
    /\ UNCHANGED <<exit_status, exit_cause, loop_started, filter_applied,
                   endpoint, minted, frames_read, stdout, captured, admitted>>
    /\ UNCHANGED sinkVars
    /\ UNCHANGED parserVars
\* lines 89-91: proto_endpoint.handle(now, src_addr, None, None, data.into(), ..)
Handle ==
    /\ pc = "handle"
    /\ \E e \in Endpoint_handle(endpoint, parsed.src_addr, parsed.payload) :
          /\ event' = e
          /\ log' = Append(log, [remote |-> parsed.src_addr,
                                 cid |-> CidOf(parsed.payload),
                                 initial |-> IsInitial(parsed.payload),
                                 outcome |-> e.kind])
    /\ pc' = "dispatch"
    /\ UNCHANGED <<exit_status, exit_cause, loop_started, filter_applied,
                   packet, parsed, endpoint, minted, frames_read, stdout,
                   captured, admitted>>
    /\ UNCHANGED sinkVars
    /\ UNCHANGED parserVars

\* mutant: the attempt is dropped without calling accept
OnNewConnection_NoAccept ==
    /\ pc = "dispatch"
    /\ event.kind = "NewConnection"
    /\ stdout' = Append(stdout, "New connection")
    /\ minted' = minted + 1
    /\ admitted' = Append(admitted, event.incoming)
    /\ EndOfIteration
    /\ UNCHANGED <<exit_status, exit_cause, loop_started, filter_applied,
                   endpoint, frames_read, captured, log>>
    /\ UNCHANGED sinkVars
    /\ UNCHANGED parserVars
\* mutant: the startup credential is reused, none is minted for the attempt
OnNewConnection_ReuseConfig ==
    /\ pc = "dispatch"
    /\ event.kind = "NewConnection"
    /\ stdout' = Append(stdout, "New connection")
    /\ endpoint' = Endpoint_accept(endpoint, event.incoming)
    /\ admitted' = Append(admitted, event.incoming)
    /\ EndOfIteration
    /\ UNCHANGED <<exit_status, exit_cause, loop_started, filter_applied,
                   minted, frames_read, captured, log>>
    /\ UNCHANGED sinkVars
    /\ UNCHANGED parserVars
\* mutant: the handle accept returned is stored by the loop
OnNewConnection_KeepHandle ==
    /\ pc = "dispatch"
    /\ event.kind = "NewConnection"
    /\ stdout' = Append(stdout, "New connection")
    /\ minted' = minted + 1
    /\ endpoint' = Endpoint_accept(endpoint, event.incoming)
    /\ admitted' = Append(admitted, event.incoming)
    /\ kept' = kept \cup {endpoint.next_handle}
    /\ EndOfIteration
    /\ UNCHANGED <<exit_status, exit_cause, loop_started, filter_applied,
                   frames_read, captured, log, transmitted, delivered>>
    /\ UNCHANGED parserVars
\* lines 92-101, both `?` pass: a credential is minted, accept returns
\* Ok((ch, conn)) and the pair is dropped at the end of the arm
OnNewConnection ==
    /\ pc = "dispatch"
    /\ event.kind = "NewConnection"
    /\ stdout' = Append(stdout, "New connection")
    /\ minted' = minted + 1
    /\ endpoint' = Endpoint_accept(endpoint, event.incoming)
    /\ admitted' = Append(admitted, event.incoming)
    /\ EndOfIteration
    /\ UNCHANGED <<exit_status, exit_cause, loop_started, filter_applied,
                   frames_read, captured, log>>
    /\ UNCHANGED sinkVars
    /\ UNCHANGED parserVars

\* lines 93-95: create_dummy_server_config()? fails inside the loop
OnNewConnectionCredentialErr ==
    /\ pc = "dispatch"
    /\ event.kind = "NewConnection"
    /\ stdout' = Append(stdout, "New connection")
    /\ ReturnErr("credential")
    /\ UNCHANGED <<loop_started, filter_applied, packet, parsed, event,
                   endpoint, minted, frames_read, captured, log, admitted>>
    /\ UNCHANGED sinkVars
    /\ UNCHANGED parserVars

\* lines 93-98: accept returns Err, map_err(..)? returns it from main
OnNewConnectionAcceptErr ==
    /\ pc = "dispatch"
    /\ event.kind = "NewConnection"
    /\ stdout' = Append(stdout, "New connection")
    /\ minted' = minted + 1
    /\ ReturnErr("accept")
    /\ UNCHANGED <<loop_started, filter_applied, packet, parsed, event,
                   endpoint, frames_read, captured, log, admitted>>
    /\ UNCHANGED sinkVars
    /\ UNCHANGED parserVars

\* mutant: the event closes the connection and the entry stays in the table
OnConnectionEvent_CloseNoEvict ==
    /\ pc = "dispatch"
    /\ event.kind = "ConnectionEvent"
    /\ stdout' = Append(stdout, "Connection event")
    /\ endpoint' = [endpoint EXCEPT !.connections =
          {IF c.handle = event.handle THEN [c EXCEPT !.state = "Closed"] ELSE c
             : c \in endpoint.connections}]
    /\ EndOfIteration
    /\ UNCHANGED <<exit_status, exit_cause, loop_started, filter_applied,
                   minted, frames_read, captured, log, admitted>>
    /\ UNCHANGED sinkVars
    /\ UNCHANGED parserVars
\* lines 103-113: the event is printed and dropped (the forwarding to the
\* connection is commented out)
OnConnectionEvent ==
    /\ pc = "dispatch"
    /\ event.kind = "ConnectionEvent"
    /\ stdout' = Append(stdout, "Connection event")
    /\ EndOfIteration
    /\ UNCHANGED <<exit_status, exit_cause, loop_started, filter_applied,
                   endpoint, minted, frames_read, captured, log, admitted>>
    /\ UNCHANGED sinkVars
    /\ UNCHANGED parserVars

\* lines 115-118: the transmit is printed and dropped (respond is commented out)
OnResponse ==
    /\ pc = "dispatch"
    /\ event.kind = "Response"
    /\ stdout' = Append(stdout, "Response event")
    /\ EndOfIteration
    /\ UNCHANGED <<exit_status, exit_cause, loop_started, filter_applied,
                   endpoint, minted, frames_read, captured, log, admitted>>
    /\ UNCHANGED sinkVars
    /\ UNCHANGED parserVars

\* line 119: None => {}
OnNone ==
    /\ pc = "dispatch"
    /\ event.kind = "None"
    /\ EndOfIteration
    /\ UNCHANGED <<exit_status, exit_cause, loop_started, filter_applied,
                   endpoint, minted, frames_read, stdout, captured, log,
                   admitted>>
    /\ UNCHANGED sinkVars
    /\ UNCHANGED parserVars

Next ==
    \/ LoadConfig
    \/ OpenCapture
    \/ SetFilter
    \/ ServerConfig
    \/ NextPacketOk
    \/ NextPacketErr
    \/ ParsePacket
    \/ Handle
    \/ OnNewConnection
    \/ OnNewConnectionAcceptErr
    \/ OnNewConnectionCredentialErr
    \/ OnConnectionEvent
    \/ OnResponse
    \/ OnNone

Spec == Init /\ [][Next]_vars

(***************************************************************************)
(* Properties of main, checked under Spec                                  *)
(***************************************************************************)
Exited == pc = "exited"

\* C1: when capture.next_packet returns an error the loop terminates and the
\* process reports failure (main ends with an error, not a success status).
C1_ReadFailureReportsFailure ==
    (Exited /\ exit_cause = "capture_read") => exit_status = "failure"

\* C2: once the loop is running no per-datagram condition aborts the process;
\* a failed accept is treated as a refusal and the loop reads the next frame,
\* so only configuration, capture-setup and capture-read failures end it.
C2_NoPerDatagramAbort ==
    (Exited /\ loop_started) =>
        exit_cause \in {"config", "capture_setup", "capture_read"}

\* C9: a connection identifier yields NewConnection at most once: after a
\* datagram produced NewConnection and was admitted, every later datagram of
\* the same connection produces ConnectionEvent, and the engine tracks at most
\* one connection for that identifier.
C9_NewConnectionAtMostOnce ==
    /\ \A i \in 1..Len(log) : \A j \in 1..Len(log) :
          (i < j /\ log[i].outcome = "NewConnection" /\ log[j].cid = log[i].cid)
              => log[j].outcome = "ConnectionEvent"
    /\ \A i \in 1..Len(log) :
          Cardinality(Routes(endpoint, log[i].cid)) <= 1

\* datagram A from address X was admitted, its retransmission B from X gave a
\* ConnectionEvent and one connection is tracked
C9_Witness ==
    /\ Len(log) >= 2
    /\ log[1].outcome = "NewConnection"
    /\ log[1].remote.ip = AddrX
    /\ log[2].remote = log[1].remote
    /\ log[2].cid = log[1].cid
    /\ log[2].initial
    /\ log[2].outcome = "ConnectionEvent"
    /\ Cardinality(endpoint.connections) = 1

BetweenDispatches == pc \in {"next_packet", "parse", "handle"}
\* the event being dispatched refers to a connection the table holds
HandlePresent ==
    \E c \in endpoint.connections : c.handle = event.handle
\* main has no shutdown state: nothing in lines 69-126 records one
Shutdown == FALSE

IsNewConnectionEntry(e) == e.outcome = "NewConnection"
IsResponseEntry(e) == e.outcome = "Response"
IsPrintedEntry(e) == e.outcome # "None"
IsAccepted(f) == parse_udp_packet(f).kind = "Some"
IsConnectionEventLine(l) == l = "Connection event"
IsResponseLine(l) == l = "Response event"

\* a step that dispatches a ConnectionEvent applies it when its handle is
\* present and otherwise leaves the registry alone and goes on
C11_Step ==
    (pc = "dispatch" /\ event.kind = "ConnectionEvent") =>
        IF HandlePresent
        THEN delivered' = Append(delivered, event.handle)
        ELSE /\ endpoint' = endpoint
             /\ delivered' = delivered
             /\ pc' = "next_packet"
             /\ exit_status' = exit_status

\* C11: a ConnectionEvent whose handle is absent from the registry is dropped
\* without error and without changing the registry, and the loop continues; a
\* ConnectionEvent whose handle is present is applied to that connection.
C11_EventAppliedOrDropped == [][C11_Step]_vars

\* a step that dispatches a NewConnection admits the attempt, or, in a
\* shutdown state, refuses it with a Response and no registry entry
C12_Step ==
    (pc = "dispatch" /\ event.kind = "NewConnection") =>
        IF Shutdown
        THEN /\ endpoint' = endpoint
             /\ transmitted' = Append(transmitted, event.incoming.remote)
        ELSE /\ admitted' = Append(admitted, event.incoming)
             /\ \E c \in endpoint'.connections :
                   c.cid = event.incoming.cid /\ c.state = "Active"

\* C12: on NewConnection the router admits the attempt unless the system is in
\* a shutdown state, in which case it refuses: no registry entry is created
\* and a refusal Response is produced.
C12_AdmitUnlessShutdown == [][C12_Step]_vars

\* C13: a capture setup failure (interface cannot be opened, or filter cannot
\* be applied) is fatal before the first frame is read, so the loop never runs
\* with an unapplied filter.
C13_SetupFailureIsFatal ==
    /\ (pc \in {"next_packet", "parse", "handle", "dispatch"} \/ loop_started)
          => filter_applied
    /\ exit_cause = "capture_setup" =>
          (exit_status = "failure" /\ frames_read = 0)

\* C14: every Response outcome of handle results in the datagram being handed
\* to the transmit sink, addressed to the peer, before the next frame is read.
C14_ResponseTransmitted ==
    BetweenDispatches =>
        Len(SelectSeq(log, IsResponseEntry)) = Len(transmitted)

\* a step keeps every tracked handle on the path Pending -> Active -> Closed:
\* entries are Active, an entry either stays as it is or leaves the table, a
\* new entry is the pending attempt under a handle never used before
C15_Step ==
    /\ \A c \in endpoint'.connections :
          c.state = "Active" /\ c.handle < endpoint'.next_handle
    /\ \A c \in endpoint.connections :
          \/ c \in endpoint'.connections
          \/ ~\E d \in endpoint'.connections : d.handle = c.handle
    /\ \A d \in endpoint'.connections \ endpoint.connections :
          /\ d.handle >= endpoint.next_handle
          /\ pc = "dispatch"
          /\ event.kind = "NewConnection"
          /\ d.cid = event.incoming.cid
    /\ endpoint'.next_handle >= endpoint.next_handle

AcceptedFrames == SelectSeq(captured, IsAccepted)
\* how many of them have been handed to the engine
HandedOver ==
    IF pc \in {"parse", "handle"} /\ IsAccepted(captured[Len(captured)])
    THEN Len(AcceptedFrames) - 1
    ELSE Len(AcceptedFrames)

\* handle was called once per accepted frame, in capture order, and between
\* dispatches every earlier outcome has been dispatched, accepts included
C16_Inv ==
    /\ Len(log) = HandedOver
    /\ \A i \in 1..Len(log) :
          /\ log[i].remote = parse_udp_packet(AcceptedFrames[i]).src_addr
          /\ log[i].cid = CidOf(parse_udp_packet(AcceptedFrames[i]).payload)
    /\ BetweenDispatches =>
          /\ Len(SelectSeq(log, IsNewConnectionEntry)) = Len(admitted)
          /\ Len(SelectSeq(log, IsPrintedEntry)) = Len(stdout)
    /\ pc \in {"handle", "dispatch"} => Len(captured) = frames_read

\* a rejected frame changes no state and the loop continues
C16_Step ==
    (pc = "parse" /\ ~IsAccepted(packet)) =>
        /\ pc' = "next_packet"
        /\ UNCHANGED <<exit_status, endpoint, minted, stdout, log, admitted,
                       transmitted, delivered, kept, frames_read>>

\* C16: handle is called exactly once for each captured frame the parser
\* accepts and never for a rejected one, in capture order, and never before
\* the previous frame's dispatch (with any accept) has completed; a rejected
\* frame changes no state and the loop continues.
C16_OneHandlePerAcceptedFrame == []C16_Inv /\ [][C16_Step]_vars

\* three frames were read, the second was rejected, the other two were handed
\* to the engine and dispatched
C16_Witness ==
    /\ pc = "next_packet"
    /\ Len(captured) = 3
    /\ IsAccepted(captured[1])
    /\ ~IsAccepted(captured[2])
    /\ IsAccepted(captured[3])
    /\ Len(log) = 2
    /\ log[1].outcome = "NewConnection"
    /\ Len(admitted) = 1

\* C17 (as stated): the program follows exactly one credential policy: one
\* credential at startup and no further one, or one per admitted connection
\* and none at any other time, never both.
C17_OneCredentialPolicy ==
    minted <= 1 \/ minted = Len(admitted)

\* the startup credential of line 81 has been minted
StartupMinted == IF loop_started \/ pc = "next_packet" THEN 1 ELSE 0

\* C17 (amended): the program mints one credential at startup and one more
\* each time a NewConnection attempt is dispatched, before accept is called
\* (whether or not accept then succeeds), and at no other time.
C17_StartupAndPerAttempt ==
    minted = StartupMinted + Len(admitted)
             + (IF exit_cause = "accept" THEN 1 ELSE 0)

\* two connections were admitted: three credentials have been minted
C17_Witness ==
    /\ Len(admitted) = 2
    /\ minted = 3

\* the loop holds no connection, and between iterations no local of the body
\* is alive
C18_Inv ==
    /\ kept = {}
    /\ pc = "next_packet" =>
          (packet = <<>> /\ parsed = NotCalled /\ event = NotCalled)

\* the ConnectionEvent, Response and None arms change nothing but the output
C18_Step ==
    (pc = "dispatch" /\ event.kind \in {"ConnectionEvent", "Response", "None"})
        => /\ UNCHANGED <<endpoint, minted, kept, transmitted, delivered,
                          frames_read, exit_status, exit_cause, filter_applied>>
           /\ pc' = "next_packet"
           /\ \/ stdout' = stdout
              \/ \E l \in {"Connection event", "Response event"} :
                    stdout' = Append(stdout, l)

\* C18: the loop keeps no per-connection state between iterations: the handle
\* and connection returned by accept are discarded, and the ConnectionEvent,
\* Response and None arms change no state outside the engine except the
\* diagnostic output.
C18_NoLoopOwnedConnectionState == []C18_Inv /\ [][C18_Step]_vars

\* a connection was admitted, a ConnectionEvent and a Response were printed,
\* and the loop is back at next_packet holding nothing
C18_Witness ==
    /\ pc = "next_packet"
    /\ Len(admitted) = 1
    /\ Len(SelectSeq(stdout, IsConnectionEventLine)) = 1
    /\ Len(SelectSeq(stdout, IsResponseLine)) = 1
    /\ kept = {}
    /\ event = NotCalled

====
